---- MODULE Spec2Model ----
(***************************************************************************)
(* The storefront homepage handler Home of                                 *)
(* src/_workers_next/src/app/page.tsx: filter normalisation, the six       *)
(* concurrent reads with their fallbacks, the ratings and pending-orders   *)
(* reads that depend on them, the category merge and the view-model.       *)
(*                                                                         *)
(* A JavaScript string is a sequence of one-character strings, so that     *)
(* trim, parseInt and String are computed and not assumed.                 *)
(***************************************************************************)
EXTENDS Integers, Sequences, FiniteSets, TLC

VARIABLES
    params,      \* SpecFilters: the raw searchParams mapping
    parsed,      \* SpecFilters: <<>> or <<the filters Home derives from params>>
    catInput,    \* SpecCategories: [config, observed], results of the two category reads
    catOutput,   \* SpecCategories: <<>> or <<the merged category list>>
    req,         \* per request slot, the locals of one call of Home
    cache,       \* the product-search entries of the data cache behind unstable_cache
    limits       \* [slots, faulty, sessions]: the slots that take calls, the
                 \* reads that may fail, the sessions auth() may resolve to

vars == <<params, parsed, catInput, catOutput, req, cache, limits>>

(***************************************************************************)
(* Strings                                                                 *)
(***************************************************************************)
\* UTF-16 code unit of the characters the model's strings are made of.
CharCode(c) ==
    CASE c = "\t" -> 9
      [] c = " " -> 32
      [] c = "+" -> 43
      [] c = "," -> 44
      [] c = "-" -> 45
      [] c = "." -> 46
      [] c = "0" -> 48
      [] c = "1" -> 49
      [] c = "2" -> 50
      [] c = "3" -> 51
      [] c = "4" -> 52
      [] c = "5" -> 53
      [] c = "6" -> 54
      [] c = "7" -> 55
      [] c = "8" -> 56
      [] c = "9" -> 57
      [] c = "A" -> 65
      [] c = "B" -> 66
      [] c = "C" -> 67
      [] c = "L" -> 76
      [] c = "a" -> 97
      [] c = "b" -> 98
      [] c = "c" -> 99
      [] c = "d" -> 100
      [] c = "e" -> 101
      [] c = "f" -> 102
      [] c = "h" -> 104
      [] c = "l" -> 108
      [] c = "p" -> 112
      [] c = "r" -> 114
      [] c = "s" -> 115
      [] c = "t" -> 116
      [] c = "u" -> 117
      [] c = "x" -> 120
      [] c = "y" -> 121

IsWhiteSpace(c) == c \in {" ", "\t"}

IsDigit(c) == c \in {"0", "1", "2", "3", "4", "5", "6", "7", "8", "9"}

RECURSIVE TrimStart(_)
TrimStart(s) ==
    IF s # <<>> /\ IsWhiteSpace(Head(s)) THEN TrimStart(Tail(s)) ELSE s

RECURSIVE TrimEnd(_)
TrimEnd(s) ==
    IF s # <<>> /\ IsWhiteSpace(s[Len(s)])
    THEN TrimEnd(SubSeq(s, 1, Len(s) - 1))
    ELSE s

\* String.prototype.trim
Trim(s) == TrimEnd(TrimStart(s))

\* The value of the longest prefix of decimal digits of s, continuing from acc.
RECURSIVE DigitsValue(_, _)
DigitsValue(s, acc) ==
    IF s # <<>> /\ IsDigit(Head(s))
    THEN DigitsValue(Tail(s), 10 * acc + (CharCode(Head(s)) - 48))
    ELSE acc

NaN == [nan |-> TRUE, val |-> 0]

Num(n) == [nan |-> FALSE, val |-> n]

\* Number.parseInt(s, 10): leading white space is skipped, one sign is read,
\* then the longest run of digits; NaN when that run is empty.
ParseInt(s) ==
    LET t == TrimStart(s)
        neg == t # <<>> /\ Head(t) = "-"
        u == IF t # <<>> /\ Head(t) \in {"+", "-"} THEN Tail(t) ELSE t
    IN IF u = <<>> \/ ~IsDigit(Head(u))
       THEN NaN
       ELSE Num(IF neg THEN 0 - DigitsValue(u, 0) ELSE DigitsValue(u, 0))

DigitChar(d) == <<"0", "1", "2", "3", "4", "5", "6", "7", "8", "9">>[d + 1]

\* String(n) of a non-negative integer
RECURSIVE NatToString(_)
NatToString(n) ==
    IF n < 10 THEN <<DigitChar(n)>>
    ELSE Append(NatToString(n \div 10), DigitChar(n % 10))

\* a < b in the order of Array.prototype.sort without a comparator
\* (code units, a proper prefix first)
RECURSIVE StrLess(_, _)
StrLess(a, b) ==
    IF b = <<>> THEN FALSE
    ELSE IF a = <<>> THEN TRUE
    ELSE IF Head(a) = Head(b) THEN StrLess(Tail(a), Tail(b))
    ELSE CharCode(Head(a)) < CharCode(Head(b))

\* Insertion of x into the sorted sequence s, after every element that
\* is not greater than x.
RECURSIVE InsertString(_, _)
InsertString(x, s) ==
    IF s = <<>> THEN <<x>>
    ELSE IF StrLess(x, Head(s)) THEN <<x>> \o s
    ELSE <<Head(s)>> \o InsertString(x, Tail(s))

\* Array.prototype.sort() of an array of strings
RECURSIVE SortStrings(_)
SortStrings(s) ==
    IF s = <<>> THEN <<>>
    ELSE InsertString(s[Len(s)], SortStrings(SubSeq(s, 1, Len(s) - 1)))

Range(s) == {s[k] : k \in DOMAIN s}

(***************************************************************************)
(* Request parameters and filters                                          *)
(***************************************************************************)
\* revalidate set to half the period
HalvedTtl == 30 \div 2

CACHE_TTL_SECONDS == 30

PAGE_SIZE == 24

\* A value of the searchParams mapping: undefined, a string[] or a string.
Undefined == [type |-> "undefined", str |-> <<>>]

StringArray == [type |-> "array", str |-> <<>>]

Str(s) == [type |-> "string", str |-> s]

Null == [type |-> "null", str |-> <<>>]

\* typeof v === 'string' ? v : dflt
StringOr(v, dflt) == IF v.type = "string" THEN v.str ELSE dflt

ParseQ(p) == Trim(StringOr(p.q, <<>>))

\* the category parameter taken as typed, without .trim()
CategoryParamUntrimmed(p) == StringOr(p.category, <<>>)

CategoryParam(p) == Trim(StringOr(p.category, <<>>))

ParseCategory(p) ==
    IF CategoryParam(p) # <<>> /\ CategoryParam(p) # <<"a", "l", "l">>
    THEN CategoryParam(p)
    ELSE <<>>

ParseSort(p) == Trim(StringOr(p.sort, <<"d", "e", "f", "a", "u", "l", "t">>))

\* n || 1: NaN and 0 are falsy
OrOne(n) == IF n.nan \/ n.val = 0 THEN 1 ELSE n.val

Max(a, b) == IF a >= b THEN a ELSE b

\* the page parsed without Math.max(1, ...)
ParsePageUnclamped(p) == OrOne(ParseInt(StringOr(p.page, <<"1">>)))

ParsePage(p) == Max(1, OrOne(ParseInt(StringOr(p.page, <<"1">>))))

\* The four locals q, category, sort, page of Home.
ParseFilters(p) ==
    [q |-> ParseQ(p), category |-> ParseCategory(p),
     sort |-> ParseSort(p), page |-> ParsePage(p)]

\* category || null, as handed to HomeContent
OrNull(s) == IF s = <<>> THEN Null ELSE Str(s)

ViewFilters(f) == [q |-> f.q, category |-> OrNull(f.category), sort |-> f.sort]

\* The argument of searchActiveProducts
SearchArgs(f) ==
    [q |-> f.q, category |-> f.category, sort |-> f.sort,
     page |-> f.page, pageSize |-> PAGE_SIZE]

\* the key parts without String(page)
SearchCacheKeyNoPage(f) ==
    <<"search-active-products", f.q,
      IF f.category # <<>> THEN f.category ELSE <<"a", "l", "l">>,
      f.sort, NatToString(PAGE_SIZE)>>

\* The key parts of the product search's unstable_cache
SearchCacheKey(f) ==
    <<"search-active-products", f.q,
      IF f.category # <<>> THEN f.category ELSE <<"a", "l", "l">>,
      f.sort, NatToString(f.page), NatToString(PAGE_SIZE)>>

(***************************************************************************)
(* Category merge                                                          *)
(***************************************************************************)
\* A nullable number is <<>> (null or undefined) or <<n>>; n || 0.
OrZero(o) == IF o = <<>> THEN 0 ELSE o[1]

\* The comparator (a, b) => (a.sortOrder || 0) - (b.sortOrder || 0) is negative
ConfigLess(a, b) == OrZero(a.sortOrder) - OrZero(b.sortOrder) < 0

RECURSIVE InsertConfig(_, _)
InsertConfig(x, s) ==
    IF s = <<>> THEN <<x>>
    ELSE IF ConfigLess(x, Head(s)) THEN <<x>> \o s
    ELSE <<Head(s)>> \o InsertConfig(x, Tail(s))

\* categoryConfig.sort(comparator): stable, in place
RECURSIVE SortConfig(_)
SortConfig(s) ==
    IF s = <<>> THEN <<>>
    ELSE InsertConfig(s[Len(s)], SortConfig(SubSeq(s, 1, Len(s) - 1)))

CategoryNames(config) == [k \in DOMAIN config |-> SortConfig(config)[k].name]

ExtraCategories(config, observed) ==
    SortStrings(SelectSeq(observed, LAMBDA c : c \notin Range(CategoryNames(config))))

\* const categories = [...categoryNames, ...extraCategories]
MergeCategories(config, observed) ==
    CategoryNames(config) \o ExtraCategories(config, observed)

(***************************************************************************)
(* The collaborators: what each read answers when it does not fail         *)
(***************************************************************************)
StrA == <<"A">>

StrB == <<"B">>

StrC == <<"C">>

StrX == <<"x">>

IdP1 == <<"p", "1">>

IdP2 == <<"p", "2">>

UserU1 == <<"u", "1">>

\* The products table; the third row has no id.
Catalog ==
    << [id |-> Str(IdP2), category |-> StrX, stock |-> 3, locked |-> <<1>>, sold |-> <<>>],
       [id |-> Str(IdP1), category |-> StrA, stock |-> 0, locked |-> <<>>, sold |-> <<2>>],
       [id |-> Undefined, category |-> StrX, stock |-> 1, locked |-> <<>>, sold |-> <<>>] >>

\* searchActiveProducts: the rows of the category on page 1, none for a
\* query or a later page.
DbSearch(args) ==
    LET hits == SelectSeq(Catalog,
                    LAMBDA p : args.category = <<>> \/ p.category = args.category)
    IN [items |-> IF args.page = 1 /\ args.q = <<>> THEN hits ELSE <<>>,
        total |-> IF args.q = <<>> THEN Len(hits) ELSE 0,
        page |-> args.page, pageSize |-> args.pageSize]

\* getProductRatings: a Map with an entry for p2 only
DbRatings(ids) ==
    [id \in Range(ids) \cap {IdP2} |-> [average |-> 4, count |-> 2]]

\* getUserPendingOrders
DbPendingOrders(userId) == IF userId = UserU1 THEN <<"order-1">> ELSE <<>>

DbAnnouncement == Str(<<"h", "i">>)

DbVisitorCount == 7

DbCategories ==
    << [name |-> StrB, sortOrder |-> <<2>>], [name |-> StrA, sortOrder |-> <<1>>] >>

DbProductCategories == <<StrA, StrC>>

\* What auth() resolves to: null, a session without user, a user without
\* id, a user with the empty id, a user with an id.
NoSession == [kind |-> "null", id |-> <<>>]

AuthResults ==
    { NoSession,
      [kind |-> "noUser", id |-> <<>>],
      [kind |-> "noId", id |-> <<>>],
      [kind |-> "user", id |-> <<>>],
      [kind |-> "user", id |-> UserU1] }

\* session?.user is truthy
HasUser(session) == session.kind \in {"noId", "user"}

\* session?.user?.id is truthy
HasUserId(session) == session.kind = "user" /\ session.id # <<>>

(***************************************************************************)
(* The reads of Home and their fallbacks                                   *)
(***************************************************************************)
\* The reads of the Promise.all
InitialReads ==
    {"session", "search", "announcement", "visitors", "categories", "productCategories"}

AuxReads == {"announcement", "visitors", "categories", "productCategories"}

Reads == InitialReads \cup {"ratings", "pending"}

\* the pending-orders read without its try/catch
CaughtButPending ==
    {"search", "announcement", "visitors", "categories", "productCategories", "ratings"}

\* The reads whose rejection a .catch or a try/catch swallows
Caught ==
    {"search", "announcement", "visitors", "categories", "productCategories",
     "ratings", "pending"}

\* the fallback with the page reset to 1
SearchFallbackFirstPage(f) ==
    [items |-> <<>>, total |-> 0, page |-> 1, pageSize |-> PAGE_SIZE]

\* () => ({ items: [], total: 0, page, pageSize: PAGE_SIZE })
SearchFallback(f) ==
    [items |-> <<>>, total |-> 0, page |-> f.page, pageSize |-> PAGE_SIZE]

AnnouncementFallback == Null

VisitorCountFallback == 0

EmptyMap == [id \in {} |-> [average |-> 0, count |-> 0]]

\* What an auxiliary read leaves in its local: the collaborator's answer
\* or the fallback of its .catch
AuxValue(r, ok) ==
    CASE r = "announcement" -> IF ok THEN DbAnnouncement ELSE AnnouncementFallback
      [] r = "visitors" -> IF ok THEN DbVisitorCount ELSE VisitorCountFallback
      [] r = "categories" -> IF ok THEN DbCategories ELSE <<>>
      [] r = "productCategories" -> IF ok THEN DbProductCategories ELSE <<>>

\* productsResult.items || [] ; productsResult.total || 0
Products(result) == result.items

Total(result) == result.total

Truthy(v) == v.type = "string" /\ v.str # <<>>

\* products.map(p => p.id).filter(Boolean)
ProductIds(products) ==
    LET kept == SelectSeq(products, LAMBDA p : Truthy(p.id))
    IN [k \in DOMAIN kept |-> kept[k].id.str]

\* [...productIds].sort()
SortedIds(products) == SortStrings(ProductIds(products))

\* ratingsMap.get(p.id) || { average: 0, count: 0 }
RatingOf(ratingsMap, p) ==
    IF p.id.type = "string" /\ p.id.str \in DOMAIN ratingsMap
    THEN ratingsMap[p.id.str]
    ELSE [average |-> 0, count |-> 0]

\* One element of productsWithRatings (descriptionPlain is left out: no
\* other field depends on it)
WithRating(ratingsMap, p) ==
    [id |-> p.id, category |-> p.category, stock |-> p.stock,
     locked |-> p.locked, sold |-> p.sold,
     stockCount |-> p.stock + OrZero(p.locked),
     soldCount |-> OrZero(p.sold),
     rating |-> RatingOf(ratingsMap, p).average,
     reviewCount |-> RatingOf(ratingsMap, p).count]

\* the enriched list built from the products that have an id
ProductsWithRatingsOfIds(products, ratingsMap) ==
    LET kept == SelectSeq(products, LAMBDA p : Truthy(p.id))
    IN [k \in DOMAIN kept |-> WithRating(ratingsMap, kept[k])]

ProductsWithRatings(products, ratingsMap) ==
    [k \in DOMAIN products |-> WithRating(ratingsMap, products[k])]

(***************************************************************************)
(* One call of Home                                                        *)
(***************************************************************************)
Slots == {"r1", "r2"}

TickSeconds == 15

NoParams ==
    [q |-> Undefined, category |-> Undefined, sort |-> Undefined, page |-> Undefined]

\* The searchParams of the requests the handler is run on.
RequestParams ==
    { NoParams,
      [NoParams EXCEPT !.category = Str(<<"a", "l", "l">>)],
      [NoParams EXCEPT !.category = Str(<<"x">>)],
      [NoParams EXCEPT !.category = Str(<<" ", "x">>), !.page = Str(<<"2">>)] }

\* The locals of a call that has not started. pc is the await the call is
\* suspended at and status the state of each read's promise. elapsed and
\* servedArgs record the call's history: elapsed is the seconds since the
\* call began, and the revalidate period once that long has passed or the
\* tag home:products was invalidated; servedArgs holds the arguments that
\* produced the search result the cache served.
IdleReq ==
    [pc |-> "idle",
     filters |-> ParseFilters(NoParams),
     status |-> [r \in Reads |-> "none"],
     session |-> NoSession,
     productsResult |-> SearchFallback(ParseFilters(NoParams)),
     announcement |-> Null,
     visitorCount |-> 0,
     categoryConfig |-> <<>>,
     productCategories |-> <<>>,
     sortedIds |-> <<>>,
     ratingsMap |-> EmptyMap,
     pendingArg |-> <<>>,
     pendingOrders |-> <<>>,
     view |-> <<>>,
     elapsed |-> 0,
     servedArgs |-> <<>>]

Settled(r, read) == r.status[read] \in {"ok", "cached", "failed"}

\* The data cache behind unstable_cache: an entry is served while it is
\* younger than revalidate seconds.
Fresh(e) == e.age < CACHE_TTL_SECONDS

Lookup(key) == {e \in cache : e.key = key /\ Fresh(e)}

Store(e) == {x \in cache : x.key # e.key} \cup {e}

\* The props handed to HomeContent
View(r) ==
    [products |-> ProductsWithRatings(Products(r.productsResult), r.ratingsMap),
     announcement |-> r.announcement,
     visitorCount |-> r.visitorCount,
     categories |-> MergeCategories(r.categoryConfig, r.productCategories),
     categoryConfig |-> SortConfig(r.categoryConfig),
     pendingOrders |-> r.pendingOrders,
     filters |-> ViewFilters(r.filters),
     pagination |-> [page |-> r.filters.page, pageSize |-> PAGE_SIZE,
                     total |-> Total(r.productsResult)]]

Returned(r) == [r EXCEPT !.pc = "returned", !.view = <<View(r)>>]

Raised(r) == [r EXCEPT !.pc = "raised"]

OtherVars == <<params, parsed, catInput, catOutput, limits>>

\* Home is called: the filters are parsed and the six reads of the
\* Promise.all are issued; the search is served from the cache when it
\* holds a fresh entry under the key.
Begin(i, p) ==
    LET f == ParseFilters(p)
        hit == Lookup(SearchCacheKey(f))
        e == CHOOSE e \in hit : TRUE
    IN /\ i \in limits.slots
       /\ req[i].pc \in {"idle", "done"}
       /\ req' = [req EXCEPT ![i] =
              [IdleReq EXCEPT
                 !.pc = "batch",
                 !.filters = f,
                 !.status = [r \in Reads |->
                               IF r \notin InitialReads THEN "none"
                               ELSE IF r = "search" /\ hit # {} THEN "cached"
                               ELSE "inflight"],
                 !.productsResult = IF hit # {} THEN e.value ELSE SearchFallback(f),
                 !.servedArgs = IF hit # {} THEN <<e.args>> ELSE <<>>]]
       /\ UNCHANGED <<cache, OtherVars>>

\* auth() settles; its rejection rejects the Promise.all
SettleSession(i, ok, s) ==
    /\ req[i].pc = "batch"
    /\ req[i].status["session"] = "inflight"
    /\ IF ok THEN s \in limits.sessions ELSE "session" \in limits.faulty /\ s = NoSession
    /\ req' = [req EXCEPT ![i] =
           IF ok THEN [@ EXCEPT !.status["session"] = "ok", !.session = s]
           ELSE IF "session" \in Caught
                THEN [@ EXCEPT !.status["session"] = "failed"]
                ELSE Raised([@ EXCEPT !.status["session"] = "failed"])]
    /\ UNCHANGED <<cache, OtherVars>>

\* searchActiveProducts settles: its result is cached and returned, its
\* rejection is replaced by the fallback. The read outlives a call that
\* the session's rejection has ended.
SettleSearch(i, ok) ==
    LET r == req[i]
        args == SearchArgs(r.filters)
    IN /\ r.pc \in {"batch", "raised"}
       /\ r.status["search"] = "inflight"
       /\ ok \/ "search" \in limits.faulty
       /\ IF ok
          THEN /\ req' = [req EXCEPT ![i] =
                      [@ EXCEPT !.status["search"] = "ok", !.productsResult = DbSearch(args)]]
               /\ cache' = Store([key |-> SearchCacheKey(r.filters), value |-> DbSearch(args),
                                  age |-> 0, args |-> args])
          ELSE /\ req' = [req EXCEPT ![i] =
                      IF "search" \in Caught \/ r.pc = "raised"
                      THEN [@ EXCEPT !.status["search"] = "failed",
                                     !.productsResult = SearchFallback(r.filters)]
                      ELSE Raised([@ EXCEPT !.status["search"] = "failed"])]
               /\ cache' = cache
       /\ UNCHANGED OtherVars

\* The four parameterless cached reads settle, each with the cached or
\* fresh answer of its collaborator or, when oks[read] is false, with the
\* fallback of its .catch. They write nothing but their own local, which
\* is read after the Promise.all: one step settles the four.
SettleAux(i, oks) ==
    LET r == req[i]
        uncaught == {read \in AuxReads : ~oks[read] /\ read \notin Caught}
        set == [r EXCEPT
                 !.status = [read \in Reads |->
                               IF read \notin AuxReads THEN r.status[read]
                               ELSE IF oks[read] THEN "ok" ELSE "failed"],
                 !.announcement = AuxValue("announcement", oks["announcement"]),
                 !.visitorCount = AuxValue("visitors", oks["visitors"]),
                 !.categoryConfig = AuxValue("categories", oks["categories"]),
                 !.productCategories = AuxValue("productCategories", oks["productCategories"])]
    IN /\ r.pc = "batch"
       /\ \A read \in AuxReads : r.status[read] = "inflight"
       /\ \A read \in AuxReads : oks[read] \/ read \in limits.faulty
       /\ req' = [req EXCEPT ![i] = IF uncaught # {} THEN Raised(set) ELSE set]
       /\ UNCHANGED <<cache, OtherVars>>

\* the Promise.all without the search read
AwaitedButSearch ==
    {"session", "announcement", "visitors", "categories", "productCategories"}

\* The reads the Promise.all waits for
Awaited == InitialReads

\* The Promise.all resolves: the ids are collected and sorted and the
\* ratings read is issued with them.
Join(i) ==
    LET r == req[i]
    IN /\ r.pc = "batch"
       /\ \A read \in Awaited : Settled(r, read)
       /\ req' = [req EXCEPT ![i] =
              [@ EXCEPT !.pc = "ratings",
                        !.sortedIds = SortedIds(Products(r.productsResult)),
                        !.status["ratings"] = "inflight"]]
       /\ UNCHANGED <<cache, OtherVars>>

\* The ratings read settles, with the cached or fresh answer or by its
\* rejection; the products are enriched; with a user id in the session the
\* pending-orders read is issued, without one Home returns.
SettleRatings(i, ok) ==
    LET r == req[i]
        got == IF ok
               THEN [r EXCEPT !.status["ratings"] = "ok", !.ratingsMap = DbRatings(r.sortedIds)]
               ELSE [r EXCEPT !.status["ratings"] = "failed"]
    IN /\ r.pc = "ratings"
       /\ ok \/ "ratings" \in limits.faulty
       /\ req' = [req EXCEPT ![i] =
              IF ~ok /\ "ratings" \notin Caught THEN Raised(got)
              ELSE IF HasUserId(got.session)
              THEN [got EXCEPT !.pc = "pending", !.status["pending"] = "inflight",
                               !.pendingArg = <<got.session.id>>]
              ELSE Returned(got)]
       /\ UNCHANGED <<cache, OtherVars>>

\* getUserPendingOrders settles and Home returns.
SettlePending(i, ok) ==
    LET r == req[i]
        got == IF ok
               THEN [r EXCEPT !.status["pending"] = "ok",
                              !.pendingOrders = DbPendingOrders(r.pendingArg[1])]
               ELSE [r EXCEPT !.status["pending"] = "failed"]
    IN /\ r.pc = "pending"
       /\ ok \/ "pending" \in limits.faulty
       /\ req' = [req EXCEPT ![i] =
              IF ~ok /\ "pending" \notin Caught THEN Raised(got) ELSE Returned(got)]
       /\ UNCHANGED <<cache, OtherVars>>

\* The response (or the error) is delivered and the locals are dropped;
\* what is kept, for as long as a cache entry of the call could be served,
\* is the call's history.
Finish(i) ==
    LET r == req[i]
    IN /\ r.pc \in {"returned", "raised"}
       /\ r.status["search"] # "inflight"
       /\ req' = [req EXCEPT ![i] =
              IF r.elapsed >= CACHE_TTL_SECONDS THEN IdleReq
              ELSE [IdleReq EXCEPT !.pc = "done", !.filters = r.filters,
                                   !.status["search"] = r.status["search"],
                                   !.elapsed = r.elapsed]]
       /\ UNCHANGED <<cache, OtherVars>>

Min(a, b) == IF a <= b THEN a ELSE b

\* The history of the call r, s seconds after the call began.
Aged(r, s) ==
    IF r.pc = "idle" \/ (r.pc = "done" /\ s >= CACHE_TTL_SECONDS) THEN IdleReq
    ELSE [r EXCEPT !.elapsed = Min(s, CACHE_TTL_SECONDS)]

\* TickSeconds pass; entries as old as the revalidate period are dropped.
Tick ==
    /\ cache' = {e \in {[x EXCEPT !.age = @ + TickSeconds] : x \in cache} : Fresh(e)}
    /\ req' = [i \in Slots |-> Aged(req[i], req[i].elapsed + TickSeconds)]
    /\ UNCHANGED OtherVars

\* Another part of the application invalidates the tag home:products.
InvalidateProducts ==
    /\ cache' = {}
    /\ req' = [i \in Slots |-> Aged(req[i], CACHE_TTL_SECONDS)]
    /\ UNCHANGED OtherVars

Next ==
    \/ \E i \in Slots, p \in RequestParams : Begin(i, p)
    \/ \E i \in Slots, ok \in BOOLEAN, s \in AuthResults : SettleSession(i, ok, s)
    \/ \E i \in Slots, ok \in BOOLEAN : SettleSearch(i, ok)
    \/ \E i \in Slots, oks \in [AuxReads -> BOOLEAN] : SettleAux(i, oks)
    \/ \E i \in Slots : Join(i)
    \/ \E i \in Slots, ok \in BOOLEAN : SettleRatings(i, ok)
    \/ \E i \in Slots, ok \in BOOLEAN : SettlePending(i, ok)
    \/ \E i \in Slots : Finish(i)
    \/ Tick
    \/ InvalidateProducts

InitHandler ==
    /\ req = [i \in Slots |-> IdleReq]
    /\ cache = {}

InitPure ==
    /\ params = NoParams
    /\ parsed = <<>>
    /\ catInput = [config |-> <<>>, observed |-> <<>>]
    /\ catOutput = <<>>

\* Calls one after another; every read may fail.
Init ==
    /\ InitHandler
    /\ InitPure
    /\ limits = [slots |-> {"r1"}, faulty |-> Reads, sessions |-> AuthResults]

Spec == Init /\ [][Next]_vars

\* Two calls at a time; of the reads, the search may fail.
InitConcurrent ==
    /\ InitHandler
    /\ InitPure
    /\ limits = [slots |-> Slots, faulty |-> {"search"},
                 sessions |-> {[kind |-> "user", id |-> UserU1]}]

SpecConcurrent == InitConcurrent /\ [][Next]_vars

(***************************************************************************)
(* The filters alone: Home's parsing of every searchParams of FilterInputs *)
(***************************************************************************)
QInputs == {Undefined, StringArray, Str(<<" ", "a", " ">>)}

CategoryInputs ==
    { Undefined, StringArray, Str(<<>>), Str(<<"a", "l", "l">>),
      Str(<<" ", "a", "l", "l", " ">>), Str(<<" ", "\t">>), Str(<<"x">>),
      Str(<<" ", "x", "\t">>), Str(<<"A", "L", "L">>), Str(<<"a", " ", "l">>),
      Str(<<"a", "l", "l", "x">>) }

SortInputs == {Undefined, Str(<<>>), Str(<<" ", "s">>)}

PageInputs ==
    { Undefined, StringArray, Str(<<>>), Str(<<"a", "b">>), Str(<<"0">>),
      Str(<<"-", "3">>), Str(<<"-", "0">>), Str(<<"-">>), Str(<<"x", "2">>),
      Str(<<"2">>), Str(<<" ", "5">>), Str(<<"2", "x">>), Str(<<"1", ".", "5">>),
      Str(<<"+", "4">>), Str(<<"0", "0", "7">>), Str(<<"1", "2">>), Str(<<"0", ".", "9">>) }

FilterInputs ==
    [q : QInputs, category : CategoryInputs, sort : SortInputs, page : PageInputs]

\* Lines 55-60 of Home, and what lines 66, 127 and 128 hand on.
ParseParams ==
    /\ parsed = <<>>
    /\ parsed' = << [filters |-> ParseFilters(params),
                     view |-> ViewFilters(ParseFilters(params)),
                     args |-> SearchArgs(ParseFilters(params)),
                     fallback |-> SearchFallback(ParseFilters(params)),
                     pagination |-> [page |-> ParseFilters(params).page,
                                     pageSize |-> PAGE_SIZE]] >>
    /\ UNCHANGED <<params, catInput, catOutput, req, cache, limits>>

NextFilters == ParseParams

InitFilters ==
    /\ InitHandler
    /\ params \in FilterInputs
    /\ parsed = <<>>
    /\ catInput = [config |-> <<>>, observed |-> <<>>]
    /\ catOutput = <<>>
    /\ limits = [slots |-> {}, faulty |-> {}, sessions |-> {}]

SpecFilters == InitFilters /\ [][NextFilters]_vars

(***************************************************************************)
(* The category merge alone, on every pair of lists within the bounds      *)
(***************************************************************************)
MaxConfig == 2

MaxObserved == 3

SeqsUpTo(S, n) == UNION {[1..k -> S] : k \in 0..n}

ConfigEntries == [name : {StrA, StrB}, sortOrder : {<<>>, <<1>>, <<2>>}]

\* Lines 114-118 of Home
MergeStep ==
    /\ catOutput = <<>>
    /\ catOutput' = <<MergeCategories(catInput.config, catInput.observed)>>
    /\ UNCHANGED <<params, parsed, catInput, req, cache, limits>>

NextCategories == MergeStep

InitCategories ==
    /\ InitHandler
    /\ params = NoParams
    /\ parsed = <<>>
    /\ catInput \in [config : SeqsUpTo(ConfigEntries, MaxConfig),
                     observed : SeqsUpTo({StrA, StrB, StrC}, MaxObserved)]
    /\ catOutput = <<>>
    /\ limits = [slots |-> {}, faulty |-> {}, sessions |-> {}]

SpecCategories == InitCategories /\ [][NextCategories]_vars

(***************************************************************************)
(* Properties                                                              *)
(***************************************************************************)
Running == {i \in Slots : req[i].pc \notin {"idle", "done"}}

ViewFields ==
    {"products", "announcement", "visitorCount", "categories", "categoryConfig",
     "pendingOrders", "filters", "pagination"}

\* The view-model of the returned call r has every field, and where a read
\* failed, the field holds that read's fallback.
FullyPopulated(r) ==
    /\ Len(r.view) = 1
    /\ DOMAIN r.view[1] = ViewFields
    /\ r.view[1].pagination.page = r.filters.page
    /\ r.view[1].pagination.pageSize = 24
    /\ r.status["search"] = "failed" =>
           r.view[1].products = <<>> /\ r.view[1].pagination.total = 0
    /\ r.status["announcement"] = "failed" => r.view[1].announcement = Null
    /\ r.status["visitors"] = "failed" => r.view[1].visitorCount = 0
    /\ r.status["categories"] = "failed" => r.view[1].categoryConfig = <<>>
    /\ r.status["productCategories"] = "failed" =>
           Len(r.view[1].categories) = Len(r.view[1].categoryConfig)
    /\ r.status["ratings"] = "failed" =>
           \A k \in DOMAIN r.view[1].products :
               r.view[1].products[k].rating = 0 /\ r.view[1].products[k].reviewCount = 0
    /\ r.status["pending"] \in {"failed", "none"} => r.view[1].pendingOrders = <<>>

SearchFellBack(r) ==
    /\ r.productsResult.items = <<>>
    /\ r.productsResult.total = 0
    /\ r.productsResult.page = r.filters.page
    /\ r.productsResult.pageSize = 24
    /\ r.pc = "returned" =>
           /\ DOMAIN r.view[1] = ViewFields
           /\ r.view[1].products = <<>>
           /\ r.view[1].pagination = [page |-> r.filters.page, pageSize |-> 24, total |-> 0]

SameItem(p, q) ==
    /\ p.id = q.id
    /\ p.category = q.category
    /\ p.stock = q.stock
    /\ p.locked = q.locked
    /\ p.sold = q.sold

\* C3: if the ratings read fails, every product of the returned view-model
\* has rating 0 and reviewCount 0; the products are the items of the search
\* result, in its order; a product without an entry in the ratings mapping
\* has rating 0 and reviewCount 0.
C3_RatingsFallback ==
    \A i \in Slots :
        req[i].pc = "returned" =>
            LET products == req[i].view[1].products
                items == req[i].productsResult.items
                unrated(p) == p.id.type # "string" \/ p.id.str \notin DOMAIN req[i].ratingsMap
            IN /\ Len(products) = Len(items)
               /\ \A k \in DOMAIN products : SameItem(products[k], items[k])
               /\ \A k \in DOMAIN products :
                      req[i].status["ratings"] = "failed" \/ unrated(items[k]) =>
                          products[k].rating = 0 /\ products[k].reviewCount = 0

C3_Witness ==
    \E i \in Slots :
        /\ req[i].pc = "returned"
        /\ req[i].status["ratings"] = "failed"
        /\ Len(req[i].view[1].products) = 3
        /\ req[i].view[1].products[1].id = Str(IdP2)
        /\ req[i].view[1].products[2].id = Str(IdP1)

\* The session shows no authenticated user: it is null, has no user, or
\* its user has no id (or the empty one).
NoAuthenticatedUser(s) == s.kind \in {"null", "noUser", "noId"} \/ s.id = <<>>

\* C4: when the session read returns no authenticated user,
\* getUserPendingOrders is not invoked and pendingOrders is empty.
C4_NoUserNoPendingRead ==
    \A i \in Running :
        req[i].status["session"] = "ok" /\ NoAuthenticatedUser(req[i].session) =>
            /\ req[i].status["pending"] = "none"
            /\ req[i].pendingArg = <<>>
            /\ req[i].pc # "pending"
            /\ req[i].pendingOrders = <<>>
            /\ req[i].pc = "returned" => req[i].view[1].pendingOrders = <<>>

C4_Witness ==
    \E i \in Slots :
        /\ req[i].pc = "returned"
        /\ req[i].session = [kind |-> "user", id |-> <<>>]
        /\ req[i].view[1].pendingOrders = <<>>

\* The seconds of the expiry window C6 speaks of
ExpiryWindow == 30

\* The step starts a call of Home in slot b.
BeginsCall(b) == req[b].pc \in {"idle", "done"} /\ req'[b].pc = "batch"

\* The call r invoked searchActiveProducts.
InvokedSearch(r) == r.status["search"] \in {"inflight", "ok", "failed"}

\* The call in slot a began less than the expiry window ago, with no tag
\* invalidation since, with the filters of the call that starts in slot b.
EarlierCall(a, b) ==
    /\ a # b
    /\ req[a].pc # "idle"
    /\ req[a].elapsed < ExpiryWindow
    /\ req[a].filters = req'[b].filters

\* C6, as stated: of two calls with identical filters within the expiry
\* window and with no tag invalidation in between, at most one invokes
\* searchActiveProducts: the second is served from the cache.
C6_AtMostOneSearch ==
    [][\A a, b \in Slots :
           BeginsCall(b) /\ EarlierCall(a, b) /\ InvokedSearch(req[a]) =>
               ~InvokedSearch(req'[b])]_vars

\* C6, amended: of two calls with identical filters within the expiry
\* window and with no tag invalidation in between, at most one invokes
\* searchActiveProducts, provided the search read of the first had
\* completed without failing when the second began: if the first invoked
\* searchActiveProducts, the second is served from the cache.
C6_AtMostOneSearchAfterSuccess ==
    [][\A a, b \in Slots :
           BeginsCall(b) /\ EarlierCall(a, b) /\ req[a].status["search"] = "ok" =>
               ~InvokedSearch(req'[b])]_vars

C6_Witness ==
    \E a, b \in Slots :
        /\ a # b
        /\ req[a].status["search"] = "ok"
        /\ req[a].elapsed = 15
        /\ req[b].pc = "batch"
        /\ req[b].elapsed = 0
        /\ req[b].filters = req[a].filters
        /\ req[b].status["search"] = "cached"

\* The page a raw page parameter stands for
ExpectedPage(raw) ==
    CASE raw = Str(<<"2">>) -> 2
      [] raw = Str(<<" ", "5">>) -> 5
      [] raw = Str(<<"2", "x">>) -> 2
      [] raw = Str(<<"1", ".", "5">>) -> 1
      [] raw = Str(<<"+", "4">>) -> 4
      [] raw = Str(<<"0", "0", "7">>) -> 7
      [] raw = Str(<<"1", "2">>) -> 12
      [] OTHER -> 1

\* C7: the page Home returns, which is the page it passes to the search
\* read, is the integer parsed from the raw parameter and at least 1; it is
\* 1 when the raw parameter is missing, an array, non-numeric, zero or
\* negative.
C7_PageAtLeastOne ==
    parsed # <<>> =>
        /\ parsed[1].pagination.page >= 1
        /\ parsed[1].pagination.page = ExpectedPage(params.page)
        /\ parsed[1].args.page = parsed[1].pagination.page
        /\ parsed[1].fallback.page = parsed[1].pagination.page

C7_Witness ==
    /\ parsed # <<>>
    /\ params.page = Str(<<"-", "3">>)
    /\ parsed[1].pagination.page = 1

\* C8, as stated: raw category "all", "", missing or not a string gives
\* null; every other non-empty string is returned with its surrounding
\* white space trimmed and otherwise unchanged; the search read gets the
\* same value, empty for null.
C8_CategoryAsStated ==
    parsed # <<>> =>
        /\ parsed[1].view.category =
               IF params.category.type # "string"
                  \/ params.category.str \in {<<>>, <<"a", "l", "l">>}
               THEN Null
               ELSE Str(Trim(params.category.str))
        /\ parsed[1].args.category =
               IF parsed[1].view.category = Null THEN <<>> ELSE parsed[1].view.category.str

\* C8, amended: a raw category that is missing, not a string, or that is
\* "all" or "" once its surrounding white space is trimmed gives null;
\* every other string is returned trimmed and otherwise unchanged; the
\* search read gets the same value, empty for null.
C8_CategoryTrimmedFirst ==
    parsed # <<>> =>
        /\ parsed[1].view.category =
               IF params.category.type # "string"
                  \/ Trim(params.category.str) \in {<<>>, <<"a", "l", "l">>}
               THEN Null
               ELSE Str(Trim(params.category.str))
        /\ parsed[1].args.category =
               IF parsed[1].view.category = Null THEN <<>> ELSE parsed[1].view.category.str

C8_Witness ==
    /\ parsed # <<>>
    /\ params.category = Str(<<" ", "a", "l", "l", " ">>)
    /\ parsed[1].view.category = Null
    /\ parsed[1].args.category = <<>>

\* The ids of the products that have one, in the order of Array.sort
IsSortedIdsOf(ids, items) ==
    /\ \A k \in 1..(Len(ids) - 1) : ~StrLess(ids[k + 1], ids[k])
    /\ \A id \in Range(ids) \cup {items[k].id.str : k \in DOMAIN items} :
           Cardinality({k \in DOMAIN ids : ids[k] = id})
               = Cardinality({k \in DOMAIN items : items[k].id = Str(id) /\ id # <<>>})

\* C9: the six initial reads are all issued before Home waits on any; the
\* ratings read is issued after the search read has settled, with the
\* sorted ids of the products the search returned; the pending-orders read
\* is issued after the session read has completed, with its user id.
C9_ReadOrder ==
    \A i \in Running :
        /\ \A read \in {"session", "search", "announcement", "visitors",
                        "categories", "productCategories"} :
               req[i].status[read] # "none"
        /\ req[i].status["ratings"] # "none" =>
               /\ req[i].status["search"] \in {"ok", "cached", "failed"}
               /\ IsSortedIdsOf(req[i].sortedIds, req[i].productsResult.items)
        /\ req[i].status["pending"] # "none" =>
               /\ req[i].status["session"] = "ok"
               /\ req[i].status["ratings"] \in {"ok", "failed"}
               /\ req[i].pendingArg = <<req[i].session.id>>

C9_Witness ==
    \E i \in Slots :
        /\ req[i].pc = "pending"
        /\ Len(req[i].productsResult.items) = 3
        /\ req[i].productsResult.items[1].id = Str(IdP2)
        /\ req[i].sortedIds = <<IdP1, IdP2>>
        /\ req[i].pendingArg = <<UserU1>>

\* The filters of the requests of RequestParams
RequestFilters == {ParseFilters(p) : p \in RequestParams}

NoDuplicates(s) == \A k, l \in DOMAIN s : k # l => s[k] # s[l]

\* s lists the elements of config in ascending sortOrder (null as 0).
IsConfigOrder(s, config) ==
    \E perm \in [DOMAIN config -> DOMAIN config] :
        /\ \A k, l \in DOMAIN config : k # l => perm[k] # perm[l]
        /\ \A k \in DOMAIN config : s[k] = config[perm[k]].name
        /\ \A k, l \in DOMAIN config :
               k < l => OrZero(config[perm[k]].sortOrder) <= OrZero(config[perm[l]].sortOrder)

\* C5: the merged category list is the config names in ascending sortOrder,
\* followed by the product-observed names that are absent from the config,
\* sorted lexicographically, and no name occurs twice in it.
C5_MergedNoDuplicates ==
    catOutput # <<>> =>
        LET out == catOutput[1]
            n == Len(catInput.config)
            names == {catInput.config[k].name : k \in DOMAIN catInput.config}
        IN /\ Len(out) >= n
           /\ IsConfigOrder(SubSeq(out, 1, n), catInput.config)
           /\ {out[k] : k \in (n + 1)..Len(out)} = Range(catInput.observed) \ names
           /\ \A k \in (n + 1)..(Len(out) - 1) : ~StrLess(out[k + 1], out[k])
           /\ NoDuplicates(out)

====
